---- MODULE Spec2Model ----
(***************************************************************************)
(* Weekly-report pipeline of ryok/manager-agent: the orchestrator          *)
(* (src/main.py), the three stage agents (src/agents/*.py), the two        *)
(* response parsers and the meeting-note parser                            *)
(* (src/tools/document_parser.py).                                         *)
(*                                                                         *)
(* Text is a sequence of atoms.  An atom is one character (a digit, a      *)
(* blank, a bullet, ...) or one Japanese / English phrase that the code    *)
(* searches for, written in ASCII:                                         *)
(*   FEEDBACK = "feedback" header phrase     GUTAITEKINA KAIZENTEIAN =     *)
(*   "concrete improvement proposals"        SHONIN STATUS = "approval     *)
(*   status"      SCORE = "score"            SHONIN = "approved"           *)
(*   JOKENTSUKI SHONIN = "conditionally approved"   YOSHUSEI = "needs      *)
(*   revision"    YOKAKUNIN = "needs confirmation"  SOHYO = "overall       *)
(*   comment"     TOKUNIHYOKASURUTEN = "points especially valued"          *)
(*   ADVICE = "advice"   RAISHUHENOKITAI = "expectations for next week"    *)
(*   HYOKA = "evaluation"  NASHI = "none"  SEIKA/KANRYO = achievement      *)
(*   labels  TASK/SAGYO/YOTEI = task labels  KADAI/MONDAI = issue labels   *)
(*   CHECK = check mark glyph  BOX = empty box glyph  WARN = warning glyph *)
(*   NAKAGURO = middle-dot bullet  SUP2 = superscript two.                 *)
(* A phrase that contains another one is written as the atoms of its       *)
(* parts, so that substring tests are decided as the code decides them.    *)
(***************************************************************************)
EXTENDS Naturals, Sequences, FiniteSets, TLC

VARIABLES
    \* process_weekly_report (src/main.py)
    pc, meeting_notes, use_notion, notion_client, draft_result, review_result,
    improved_draft, manager_input, manager_result, result, callLog, notionCalls,
    \* a parser applied to one reply
    reply, parsed, ppc,
    \* a stage agent's process called directly
    agent, input_data, workspace, agent_out, apc,
    \* DocumentParser.parse, line by line
    text, dlines, di, dres, dpc

pipeVars   == <<pc, meeting_notes, use_notion, notion_client, draft_result,
                review_result, improved_draft, manager_input, manager_result,
                result, callLog, notionCalls>>
parserVars == <<reply, parsed, ppc>>
agentVars  == <<agent, input_data, workspace, agent_out, apc>>
docVars    == <<text, dlines, di, dres, dpc>>
vars       == <<pipeVars, parserVars, agentVars, docVars>>

-----------------------------------------------------------------------------
(* Bounds of the model *)

\* lines of a model reply
MaxLines == 3
\* lines of a meeting note
MaxNoteLines == 2
\* meeting notes handed to one run
MaxNotes == 1
\* header phrases and fillers in one line handed to a parser's loop body
MaxPhrases == 3

-----------------------------------------------------------------------------
(* Python string operations, on sequences of atoms *)

SeqsUpTo(S, n) == UNION {[1..k -> S] : k \in 0..n}

Decimal == {"0", "1", "2", "3", "4", "5", "6", "7", "8", "9"}

\* str.isspace
IsSpace(c) == c \in {" ", "\n"}

\* str.isdigit: true of the decimal digits and of digits int() does not take
IsDigit(c) == c \in Decimal \cup {"SUP2"}

RECURSIVE LStrip(_)
LStrip(s) == IF s # <<>> /\ IsSpace(Head(s)) THEN LStrip(Tail(s)) ELSE s

RECURSIVE RStrip(_)
RStrip(s) ==
    IF s # <<>> /\ IsSpace(s[Len(s)]) THEN RStrip(SubSeq(s, 1, Len(s) - 1)) ELSE s

\* str.strip()
Strip(s) == RStrip(LStrip(s))

\* sub in s
Contains(s, sub) ==
    \E i \in 1..(Len(s) + 1) : i + Len(sub) - 1 <= Len(s)
                               /\ SubSeq(s, i, i + Len(sub) - 1) = sub

\* s.split("\n"): the pieces between one "\n" and the next
Split(s) ==
    LET breaks == {i \in 1..Len(s) : s[i] = "\n"}
        \* where the k-th "\n" is; the two ends of s stand for breaks too
        Break(k) == IF k = 0 THEN 0
                    ELSE IF k > Cardinality(breaks) THEN Len(s) + 1
                    ELSE CHOOSE i \in breaks : Cardinality({j \in breaks : j <= i}) = k
    IN  [k \in 1..(Cardinality(breaks) + 1) |-> SubSeq(s, Break(k - 1) + 1, Break(k) - 1)]

\* "\n".join(ls)
RECURSIVE JoinLines(_)
JoinLines(ls) ==
    IF ls = <<>> THEN <<>>
    ELSE IF Len(ls) = 1 THEN ls[1]
    ELSE ls[1] \o <<"\n">> \o JoinLines(Tail(ls))

DigitVal(c) ==
    CASE c = "0" -> 0 [] c = "1" -> 1 [] c = "2" -> 2 [] c = "3" -> 3
      [] c = "4" -> 4 [] c = "5" -> 5 [] c = "6" -> 6 [] c = "7" -> 7
      [] c = "8" -> 8 [] c = "9" -> 9

RECURSIVE DecimalValue(_, _)
DecimalValue(ds, acc) ==
    IF ds = <<>> THEN acc ELSE DecimalValue(Tail(ds), acc * 10 + DigitVal(Head(ds)))

\* int(s): ValueError on the empty string and on a digit that is not decimal
PyInt(ds) ==
    IF ds = <<>> \/ \E i \in 1..Len(ds) : ds[i] \notin Decimal
    THEN [exc |-> "ValueError", val |-> 0]
    ELSE [exc |-> "none", val |-> DecimalValue(ds, 0)]

\* "".join(filter(str.isdigit, line))
DigitsOf(line) == SelectSeq(line, IsDigit)

-----------------------------------------------------------------------------
(* ReviewerAgent._parse_review_response (src/agents/reviewer.py) *)

H_FEEDBACK    == <<"FEEDBACK">>
H_SUGGESTIONS == <<"GUTAITEKINA", "KAIZENTEIAN">>
H_APPROVAL    == <<"SHONIN", "STATUS">>
H_SCORE       == <<"SCORE">>
K_SHONIN      == <<"SHONIN">>
K_YOKAKUNIN   == <<"YOKAKUNIN">>

ReviewStart ==
    [feedback |-> <<>>, suggestions |-> <<>>, approval |-> <<"YOSHUSEI">>,
     score |-> 0, current_section |-> "None", exc |-> "none"]

\* try: score = int(...) except ValueError: score = 0
ScoreOf_NoExcept(line) == PyInt(DigitsOf(line))

ScoreOf(line) ==
    LET r == PyInt(DigitsOf(line))
    IN  IF r.exc = "ValueError" THEN [exc |-> "none", val |-> 0] ELSE r

\* the startswith test on a suggestion line
IsNumbered(line) == line # <<>> /\ Head(line) \in (Decimal \ {"0"})

\* the loop body as it would be with the longest header phrase tested first
ReviewStep_LongestFirst(st, raw) ==
    LET line == Strip(raw)
    IN  IF st.exc # "none" THEN st
        ELSE IF Contains(line, H_SUGGESTIONS)
             THEN [st EXCEPT !.current_section = "suggestions"]
        ELSE IF Contains(line, H_FEEDBACK)
             THEN [st EXCEPT !.current_section = "feedback"]
        ELSE IF Contains(line, H_APPROVAL)
             THEN [st EXCEPT !.current_section = "approval"]
        ELSE IF Contains(line, H_SCORE)
             THEN [st EXCEPT !.current_section = "score"]
        ELSE IF line # <<>>
             THEN IF st.current_section = "feedback"
                  THEN [st EXCEPT !.feedback = @ \o line \o <<"\n">>]
                  ELSE IF st.current_section = "suggestions" /\ IsNumbered(line)
                  THEN [st EXCEPT !.suggestions = Append(@, line)]
                  ELSE IF st.current_section = "approval"
                  THEN IF Contains(line, K_SHONIN)
                       THEN [st EXCEPT !.approval = line]
                       ELSE st
                  ELSE IF st.current_section = "score"
                  THEN LET r == ScoreOf(line)
                       IN  [st EXCEPT !.score = r.val, !.exc = r.exc]
                  ELSE st
        ELSE st

\* one pass of the loop body over a raw line
ReviewStep(st, raw) ==
    LET line == Strip(raw)
    IN  IF st.exc # "none" THEN st
        ELSE IF Contains(line, H_FEEDBACK)
             THEN [st EXCEPT !.current_section = "feedback"]
        ELSE IF Contains(line, H_SUGGESTIONS)
             THEN [st EXCEPT !.current_section = "suggestions"]
        ELSE IF Contains(line, H_APPROVAL)
             THEN [st EXCEPT !.current_section = "approval"]
        ELSE IF Contains(line, H_SCORE)
             THEN [st EXCEPT !.current_section = "score"]
        ELSE IF line # <<>>
             THEN IF st.current_section = "feedback"
                  THEN [st EXCEPT !.feedback = @ \o line \o <<"\n">>]
                  ELSE IF st.current_section = "suggestions" /\ IsNumbered(line)
                  THEN [st EXCEPT !.suggestions = Append(@, line)]
                  ELSE IF st.current_section = "approval"
                  THEN IF Contains(line, K_SHONIN)
                       THEN [st EXCEPT !.approval = line]
                       ELSE st
                  ELSE IF st.current_section = "score"
                  THEN LET r == ScoreOf(line)
                       IN  [st EXCEPT !.score = r.val, !.exc = r.exc]
                  ELSE st
        ELSE st

RECURSIVE ReviewLoop(_, _, _)
ReviewLoop(lines, i, st) ==
    IF i > Len(lines) THEN st ELSE ReviewLoop(lines, i + 1, ReviewStep(st, lines[i]))

\* the returned dict; exc names an exception that left the function
ParseReviewResponse(response) ==
    LET st == ReviewLoop(Split(response), 1, ReviewStart)
    IN  [feedback |-> Strip(st.feedback), suggestions |-> st.suggestions,
         approval |-> st.approval, score |-> st.score, exc |-> st.exc]

-----------------------------------------------------------------------------
(* ManagerAgent._parse_manager_response (src/agents/manager.py) *)

H_COMMENT      == <<"SOHYO">>
H_EVALUATION   == <<"TOKUNIHYOKASURUTEN">>
H_KAIZEN       == <<"KAIZENTEIAN">>
H_ADVICE       == <<"ADVICE">>
H_EXPECTATIONS == <<"RAISHUHENOKITAI">>

ManagerStart ==
    [comment |-> <<>>, evaluation |-> <<>>, expectations |-> <<>>,
     approval |-> <<"SHONIN">>, current_section |-> "None"]

\* the loop body as it would be with evaluation.append(line[1:])
ManagerStep_NoItemStrip(st, raw) ==
    LET line == Strip(raw)
    IN  IF Contains(line, H_COMMENT)
             THEN [st EXCEPT !.current_section = "comment"]
        ELSE IF Contains(line, H_EVALUATION)
             THEN [st EXCEPT !.current_section = "evaluation"]
        ELSE IF Contains(line, H_KAIZEN) \/ Contains(line, H_ADVICE)
             THEN [st EXCEPT !.current_section = "advice"]
        ELSE IF Contains(line, H_EXPECTATIONS)
             THEN [st EXCEPT !.current_section = "expectations"]
        ELSE IF Contains(line, H_APPROVAL)
             THEN [st EXCEPT !.current_section = "approval"]
        ELSE IF line # <<>>
             THEN IF st.current_section = "comment"
                  THEN [st EXCEPT !.comment = @ \o line \o <<"\n">>]
                  ELSE IF st.current_section = "evaluation" /\ Head(line) = "-"
                  THEN [st EXCEPT !.evaluation = Append(@, Tail(line))]
                  ELSE IF st.current_section = "expectations"
                  THEN [st EXCEPT !.expectations = @ \o line \o <<"\n">>]
                  ELSE IF st.current_section = "approval"
                          /\ (Contains(line, K_SHONIN) \/ Contains(line, K_YOKAKUNIN))
                  THEN [st EXCEPT !.approval = line]
                  ELSE st
        ELSE st

ManagerStep(st, raw) ==
    LET line == Strip(raw)
    IN  IF Contains(line, H_COMMENT)
             THEN [st EXCEPT !.current_section = "comment"]
        ELSE IF Contains(line, H_EVALUATION)
             THEN [st EXCEPT !.current_section = "evaluation"]
        ELSE IF Contains(line, H_KAIZEN) \/ Contains(line, H_ADVICE)
             THEN [st EXCEPT !.current_section = "advice"]
        ELSE IF Contains(line, H_EXPECTATIONS)
             THEN [st EXCEPT !.current_section = "expectations"]
        ELSE IF Contains(line, H_APPROVAL)
             THEN [st EXCEPT !.current_section = "approval"]
        ELSE IF line # <<>>
             THEN IF st.current_section = "comment"
                  THEN [st EXCEPT !.comment = @ \o line \o <<"\n">>]
                  ELSE IF st.current_section = "evaluation" /\ Head(line) = "-"
                  THEN [st EXCEPT !.evaluation = Append(@, Strip(Tail(line)))]
                  ELSE IF st.current_section = "expectations"
                  THEN [st EXCEPT !.expectations = @ \o line \o <<"\n">>]
                  ELSE IF st.current_section = "approval"
                          /\ (Contains(line, K_SHONIN) \/ Contains(line, K_YOKAKUNIN))
                  THEN [st EXCEPT !.approval = line]
                  ELSE st
        ELSE st

RECURSIVE ManagerLoop(_, _, _)
ManagerLoop(lines, i, st) ==
    IF i > Len(lines) THEN st ELSE ManagerLoop(lines, i + 1, ManagerStep(st, lines[i]))

ParseManagerResponse(response) ==
    LET st == ManagerLoop(Split(response), 1, ManagerStart)
    IN  [comment |-> Strip(st.comment), evaluation |-> st.evaluation,
         expectations |-> Strip(st.expectations), approval |-> st.approval,
         exc |-> "none"]

-----------------------------------------------------------------------------
(* DocumentParser (src/tools/document_parser.py) *)

Colons == {":", "FWCOLON"}

\* self.patterns: per category, the ordered patterns; a pattern is the set of
\* atoms its alternation takes (re.IGNORECASE: every case of an English word)
\* and whether a colon must follow
Categories == <<"achievements", "tasks", "issues">>

Patterns(category) ==
    CASE category = "achievements" ->
           << [heads |-> {"SEIKA", "JISSEKI", "KANRYO", "TASSEI"}, colon |-> TRUE],
              [heads |-> {"CHECK", "HEAVYCHECK", "CHECKEDBOX"}, colon |-> FALSE],
              [heads |-> {"Done", "DONE", "done"}, colon |-> TRUE] >>
      [] category = "tasks" ->
           << [heads |-> {"TASK", "SAGYO", "SHINKOCHU", "TODO", "todo"}, colon |-> TRUE],
              [heads |-> {"BOX", "BOX2", "BOX3"}, colon |-> FALSE],
              [heads |-> {"In Progress", "IN PROGRESS", "WIP", "wip"}, colon |-> TRUE] >>
      [] category = "issues" ->
           << [heads |-> {"KADAI", "MONDAI", "KENEN", "RISK"}, colon |-> TRUE],
              [heads |-> {"WARN", "BANG", "CROSS"}, colon |-> FALSE],
              [heads |-> {"Issue", "ISSUE", "issue", "Problem", "PROBLEM", "problem"},
               colon |-> TRUE] >>

\* where the captured group's "\s*(.+)" starts when the pattern matches at i,
\* 0 when it does not match there
GroupStart(p, line, i) ==
    IF line[i] \notin p.heads THEN 0
    ELSE IF p.colon
         THEN IF i + 2 <= Len(line) /\ line[i + 1] \in Colons THEN i + 2 ELSE 0
         ELSE IF i + 1 <= Len(line) THEN i + 1 ELSE 0

\* re.search(pattern, line): the positions where the pattern matches
MatchesAt(p, line) == {i \in 1..Len(line) : GroupStart(p, line, i) # 0}

\* match.group(1) of the leftmost match: "\s*" is greedy and gives one blank
\* back when nothing else is left for "(.+)"
Group(p, line) ==
    LET i    == CHOOSE j \in MatchesAt(p, line) : \A k \in MatchesAt(p, line) : j <= k
        rest == SubSeq(line, GroupStart(p, line, i), Len(line))
    IN  IF LStrip(rest) # <<>> THEN LStrip(rest) ELSE <<rest[Len(rest)]>>

Bullets == {"-", "NAKAGURO", "BLACKCIRCLE", "BLACKDIAMOND", "WHITEDIAMOND", "WHITECIRCLE"}

\* re.sub(r"\s+", " ", text)
RECURSIVE CollapseSpaces(_)
CollapseSpaces(s) ==
    IF s = <<>> THEN <<>>
    ELSE IF IsSpace(Head(s)) THEN <<" ">> \o CollapseSpaces(LStrip(s))
    ELSE <<Head(s)>> \o CollapseSpaces(Tail(s))

\* _clean_text
CleanText(t) ==
    LET l  == LStrip(t)
        t1 == IF l # <<>> /\ Head(l) \in Bullets THEN LStrip(Tail(l)) ELSE t
    IN  Strip(CollapseSpaces(t1))

\* the inner "for pattern in patterns" with its break: the first pattern that
\* matches, 0 when none does
RECURSIVE FirstPattern(_, _, _)
FirstPattern(ps, k, line) ==
    IF k > Len(ps) THEN 0
    ELSE IF MatchesAt(ps[k], line) # {} THEN k
    ELSE FirstPattern(ps, k + 1, line)

\* "for category, patterns in self.patterns.items()": the break leaves the
\* patterns of one category, and the categories that follow are still tried
RECURSIVE CategoryLoop(_, _, _)
CategoryLoop(res, line, c) ==
    IF c > Len(Categories) THEN res
    ELSE LET k == FirstPattern(Patterns(Categories[c]), 1, line)
         IN  IF k = 0 THEN CategoryLoop(res, line, c + 1)
             ELSE CategoryLoop(
                      [res EXCEPT ![Categories[c]] =
                          Append(@, CleanText(Group(Patterns(Categories[c])[k], line)))],
                      line, c + 1)

\* the body of parse's loop over one raw line
DocStep(res, raw) ==
    LET line == Strip(raw)
    IN  IF line = <<>> THEN res ELSE CategoryLoop(res, line, 1)

\* str.lower
LowerAtom(c) ==
    CASE c \in {"Done", "DONE"} -> "done"
      [] c = "TODO" -> "todo"
      [] c = "WIP" -> "wip"
      [] c \in {"In Progress", "IN PROGRESS"} -> "in progress"
      [] c \in {"Issue", "ISSUE"} -> "issue"
      [] c \in {"Problem", "PROBLEM"} -> "problem"
      [] OTHER -> c

Lower(s) == [i \in 1..Len(s) |-> LowerAtom(s[i])]

\* section_keywords of _fallback_parse
SectionKeywords(section) ==
    CASE section = "achievements" -> {"SEIKA", "JISSEKI", "KANRYO", "achievement", "done"}
      [] section = "tasks" -> {"TASK", "SAGYO", "YOTEI", "task", "todo"}
      [] section = "issues" -> {"KADAI", "MONDAI", "KENEN", "issue", "problem"}

HasKeyword(lower_line, section) ==
    \E i \in 1..Len(lower_line) : lower_line[i] \in SectionKeywords(section)

\* the section a line switches to (first in dict order), "None" when it names none
SectionOf(lower_line) ==
    IF HasKeyword(lower_line, "achievements") THEN "achievements"
    ELSE IF HasKeyword(lower_line, "tasks") THEN "tasks"
    ELSE IF HasKeyword(lower_line, "issues") THEN "issues"
    ELSE "None"

FallbackBullets == {"-", "NAKAGURO", "BLACKCIRCLE", "*", "+"}

FallbackStep(st, raw) ==
    LET line    == Strip(raw)
        section == IF SectionOf(Lower(line)) # "None" THEN SectionOf(Lower(line))
                   ELSE st.current_section
        content == CleanText(line)
    IN  IF line = <<>> THEN st
        ELSE IF section # "None" /\ Head(line) \in FallbackBullets /\ content # <<>>
             THEN [st EXCEPT !.current_section = section,
                             !.result[section] = Append(@, content)]
             ELSE [st EXCEPT !.current_section = section]

RECURSIVE FallbackLoop(_, _, _)
FallbackLoop(lines, i, st) ==
    IF i > Len(lines) THEN st ELSE FallbackLoop(lines, i + 1, FallbackStep(st, lines[i]))

\* _fallback_parse: its result dict has no raw_text
FallbackParse(lines) ==
    FallbackLoop(lines, 1,
        [current_section |-> "None",
         result |-> [achievements |-> <<>>, tasks |-> <<>>, issues |-> <<>>]]).result

\* parse's "result" before the loop
DocStart(t) == [achievements |-> <<>>, tasks |-> <<>>, issues |-> <<>>, raw_text |-> t]

\* any(result[cat] for cat in [...])
AnyCategory(res) == res.achievements # <<>> \/ res.tasks # <<>> \/ res.issues # <<>>

\* the end of parse: the fallback replaces the result when every list is empty
DocReturn(res, lines) == IF ~AnyCategory(res) THEN FallbackParse(lines) ELSE res

RECURSIVE DocLoop(_, _, _)
DocLoop(lines, i, res) ==
    IF i > Len(lines) THEN res ELSE DocLoop(lines, i + 1, DocStep(res, lines[i]))

\* DocumentParser.parse as one call
DocParse(t) == DocReturn(DocLoop(Split(t), 1, DocStart(t)), Split(t))

\* lines a meeting note is made of
DocLines ==
    { <<>>,
      <<"CHECK", " ", "x">>,
      <<"BOX", " ", "y">>,
      <<"WARN", " ", " ", "z">>,
      <<"SEIKA", ":", " ", "TASK", ":", " ", "x">>,
      <<"KADAI", "FWCOLON", "-", " ", "x">>,
      <<"#", " ", "SEIKA">>,
      <<"#", " ", "TODO">>,
      <<"-", " ", "x">>,
      <<"*", " ", "y">>,
      <<"x">> }

DocTexts == {JoinLines(ls) : ls \in SeqsUpTo(DocLines, MaxNoteLines)}

-----------------------------------------------------------------------------
(* The external collaborators *)

\* a value that is not there yet
NoResult == [status |-> "none"]

\* {} and dict.get(key, default)
EmptyDict == <<>>
Get(d, k, default) == IF k \in DOMAIN d THEN d[k] ELSE default

\* what one call of the completion service does: it raises, or replies a text
Raise == [raised |-> TRUE, text |-> <<>>]
Answer(t) == [raised |-> FALSE, text |-> t]

\* what one query of the workspace database does: it raises, or returns pages
QueryRaise == [raised |-> TRUE, results |-> <<>>]
QueryPages(ps) == [raised |-> FALSE, results |-> ps]

\* one entry of the record of the completion-service calls made
Call(by, prompt, o) == [by |-> by, prompt |-> prompt, raised |-> o.raised, text |-> o.text]

-----------------------------------------------------------------------------
(* BaseAgent.generate_response (src/agents/base_agent.py): nothing is caught *)

GenerateResponse(o) ==
    IF o.raised THEN [exc |-> "ServiceError", text |-> <<>>]
    ELSE [exc |-> "none", text |-> o.text]

-----------------------------------------------------------------------------
(* NotionClient (src/tools/notion_tools.py) *)

\* _parse_notion_results: one display line per page that has a title
RECURSIVE ParseNotionResults(_)
ParseNotionResults(pages) ==
    IF pages = <<>> THEN <<>>
    ELSE LET page == Head(pages)
             item == <<page.title>>
                     \o (IF page.status # "None"
                         THEN <<" (Status: ", page.status, ")">> ELSE <<>>)
                     \o (IF page.priority # "None"
                         THEN <<" [Priority: ", page.priority, "]">> ELSE <<>>)
         IN  (IF page.title # "" THEN <<item>> ELSE <<>>)
             \o ParseNotionResults(Tail(pages))

\* get_weekly_updates: queries is the number of database queries it made
GetWeeklyUpdates(client, q) ==
    IF client = "NoDatabase"
    THEN [ret |-> [items |-> <<>>, error |-> "Database ID not configured"], queries |-> 0]
    ELSE IF q.raised
    THEN [ret |-> [items |-> <<>>, error |-> "query failed"], queries |-> 1]
    ELSE [ret |-> [items |-> ParseNotionResults(q.results),
                   count |-> Len(ParseNotionResults(q.results))],
          queries |-> 1]

-----------------------------------------------------------------------------
(* ReportWriterAgent (src/agents/report_writer.py) *)

\* _parse_meeting_notes
RECURSIVE ParseMeetingNotes(_, _)
ParseMeetingNotes(notes, acc) ==
    IF notes = <<>> THEN acc
    ELSE LET p == DocParse(Head(notes))
         IN  ParseMeetingNotes(Tail(notes),
                 [achievements |-> acc.achievements \o Get(p, "achievements", <<>>),
                  tasks        |-> acc.tasks \o Get(p, "tasks", <<>>),
                  issues       |-> acc.issues \o Get(p, "issues", <<>>)])

\* _fetch_notion_updates: None client gives {}, as does an exception; a
\* "Raising" client is one whose get_weekly_updates raises, counted as one
\* request made
FetchNotionUpdates(client, q) ==
    IF client = "None" THEN [ret |-> EmptyDict, queries |-> 0]
    ELSE IF client = "Raising" THEN [ret |-> EmptyDict, queries |-> 1]
    ELSE GetWeeklyUpdates(client, q)

\* _create_report_prompt: what the prompt is rendered from
ReportPrompt(parsed_notes, notion_data) ==
    [kind |-> "report", achievements |-> parsed_notes.achievements,
     tasks |-> parsed_notes.tasks, issues |-> parsed_notes.issues,
     notion_items |-> Get(notion_data, "items", <<>>)]

\* process as it would be if an empty reply were answered with status "error"
WriterProcess_RejectEmpty(input, client, q, o) ==
    LET notes          == Get(input, "meeting_notes", <<>>)
        notion_updates == Get(input, "notion_updates", EmptyDict)
        parsed_notes   == ParseMeetingNotes(notes,
                              [achievements |-> <<>>, tasks |-> <<>>, issues |-> <<>>])
        fetch          == IF client # "None" /\ Get(notion_updates, "enabled", FALSE)
                          THEN FetchNotionUpdates(client, q)
                          ELSE [ret |-> EmptyDict, queries |-> 0]
        notion_data    == fetch.ret
        g              == GenerateResponse(o)
        calls          == <<Call("Writer", ReportPrompt(parsed_notes, notion_data), o)>>
    IN  IF g.exc # "none"
        THEN [exc |-> g.exc, ret |-> NoResult, calls |-> calls, queries |-> fetch.queries]
        ELSE IF g.text = <<>>
        THEN [exc |-> "none", ret |-> [status |-> "error", message |-> "no draft made"],
              calls |-> calls, queries |-> fetch.queries]
        ELSE [exc |-> "none",
              ret |-> [status |-> "success", draft |-> g.text,
                       metadata |-> [agent |-> "ReportWriter",
                                     sources |-> [meeting_notes_count |-> Len(notes),
                                                  notion_items_count |->
                                                      Len(Get(notion_data, "items", <<>>))]]],
              calls |-> calls, queries |-> fetch.queries]

\* process: [exc, ret, calls, queries]
WriterProcess(input, client, q, o) ==
    LET notes          == Get(input, "meeting_notes", <<>>)
        notion_updates == Get(input, "notion_updates", EmptyDict)
        parsed_notes   == ParseMeetingNotes(notes,
                              [achievements |-> <<>>, tasks |-> <<>>, issues |-> <<>>])
        fetch          == IF client # "None" /\ Get(notion_updates, "enabled", FALSE)
                          THEN FetchNotionUpdates(client, q)
                          ELSE [ret |-> EmptyDict, queries |-> 0]
        notion_data    == fetch.ret
        g              == GenerateResponse(o)
        calls          == <<Call("Writer", ReportPrompt(parsed_notes, notion_data), o)>>
    IN  IF g.exc # "none"
        THEN [exc |-> g.exc, ret |-> NoResult, calls |-> calls, queries |-> fetch.queries]
        ELSE [exc |-> "none",
              ret |-> [status |-> "success", draft |-> g.text,
                       metadata |-> [agent |-> "ReportWriter",
                                     sources |-> [meeting_notes_count |-> Len(notes),
                                                  notion_items_count |->
                                                      Len(Get(notion_data, "items", <<>>))]]],
              calls |-> calls, queries |-> fetch.queries]

-----------------------------------------------------------------------------
(* ReviewerAgent.process (src/agents/reviewer.py) *)

\* process as it would be if a first, failed completion call were made again
ReviewerProcess_AskAgain(input, o) ==
    LET draft == Get(input, "draft", <<>>)
        g     == GenerateResponse(o)
        calls == <<Call("Reviewer", [kind |-> "review", draft |-> draft], Raise),
                   Call("Reviewer", [kind |-> "review", draft |-> draft], o)>>
        r     == ParseReviewResponse(g.text)
    IN  IF draft = <<>>
        THEN [exc |-> "none", ret |-> [status |-> "error", message |-> "no draft given"],
              calls |-> <<>>]
        ELSE IF g.exc # "none" THEN [exc |-> g.exc, ret |-> NoResult, calls |-> calls]
        ELSE IF r.exc # "none" THEN [exc |-> r.exc, ret |-> NoResult, calls |-> calls]
        ELSE [exc |-> "none",
              ret |-> [status |-> "success", review |-> r.feedback,
                       suggestions |-> r.suggestions, approval |-> r.approval,
                       metadata |-> [agent |-> "Reviewer", review_score |-> r.score]],
              calls |-> calls]

ReviewerProcess(input, o) ==
    LET draft == Get(input, "draft", <<>>)
        g     == GenerateResponse(o)
        calls == <<Call("Reviewer", [kind |-> "review", draft |-> draft], o)>>
        r     == ParseReviewResponse(g.text)
    IN  IF draft = <<>>
        THEN [exc |-> "none", ret |-> [status |-> "error", message |-> "no draft given"],
              calls |-> <<>>]
        ELSE IF g.exc # "none" THEN [exc |-> g.exc, ret |-> NoResult, calls |-> calls]
        ELSE IF r.exc # "none" THEN [exc |-> r.exc, ret |-> NoResult, calls |-> calls]
        ELSE [exc |-> "none",
              ret |-> [status |-> "success", review |-> r.feedback,
                       suggestions |-> r.suggestions, approval |-> r.approval,
                       metadata |-> [agent |-> "Reviewer", review_score |-> r.score]],
              calls |-> calls]

-----------------------------------------------------------------------------
(* ManagerAgent.process (src/agents/manager.py) *)

\* review_feedback.get("score", "unknown"), as the prompt shows it
PromptScore(review_feedback) ==
    IF "score" \in DOMAIN review_feedback
    THEN [given |-> TRUE, score |-> review_feedback.score]
    ELSE [given |-> FALSE, score |-> 0]

ManagerProcess(input, o) ==
    LET final_report    == Get(input, "final_report", <<>>)
        review_feedback == Get(input, "review_feedback", EmptyDict)
        g     == GenerateResponse(o)
        calls == <<Call("Manager", [kind |-> "comment", report |-> final_report,
                                    review_score |-> PromptScore(review_feedback)], o)>>
        m     == ParseManagerResponse(g.text)
    IN  IF final_report = <<>>
        THEN [exc |-> "none", ret |-> [status |-> "error", message |-> "no final report given"],
              calls |-> <<>>]
        ELSE IF g.exc # "none" THEN [exc |-> g.exc, ret |-> NoResult, calls |-> calls]
        ELSE [exc |-> "none",
              ret |-> [status |-> "success", comment |-> m.comment,
                       evaluation |-> m.evaluation,
                       next_week_expectations |-> m.expectations,
                       metadata |-> [agent |-> "Manager", approval_status |-> m.approval]],
              calls |-> calls]

-----------------------------------------------------------------------------
(* Replies of the completion service *)

\* lines a reviewer reply is made of
ReviewLines ==
    { <<>>,
      <<"#", "FEEDBACK">>,
      <<"GUTAITEKINA", "KAIZENTEIAN">>,
      <<"SHONIN", "STATUS">>,
      <<"SCORE">>,
      <<"SCORE", ":", " ", "8", "/", "1", "0">>,
      <<"8", "/", "1", "0">>,
      <<"8">>,
      <<"HYOKA", ":", " ", "NASHI">>,
      <<"SUP2">>,
      <<"1", ".", " ", "x">>,
      <<"SHONIN">>,
      <<"JOKENTSUKI", "SHONIN">>,
      <<"SHONIN", "x">>,
      <<" ", "x", " ">> }

\* lines a manager reply is made of
ManagerLines ==
    { <<>>,
      <<"SOHYO">>,
      <<"TOKUNIHYOKASURUTEN">>,
      <<"KAIZENTEIAN", "NAKAGURO", "ADVICE">>,
      <<"RAISHUHENOKITAI">>,
      <<"SHONIN", "STATUS">>,
      <<"-", " ", "x">>,
      <<" ", "x", " ">>,
      <<"SHONIN">>,
      <<"YOKAKUNIN">>,
      <<"SHONIN", "x">> }

ReviewReplies  == {JoinLines(ls) : ls \in SeqsUpTo(ReviewLines, MaxLines)}
ManagerReplies == {JoinLines(ls) : ls \in SeqsUpTo(ManagerLines, MaxLines)}
Replies        == ReviewReplies \cup ManagerReplies

-----------------------------------------------------------------------------
(* Structured results written back as text *)

DigitAtom(d) ==
    CASE d = 0 -> "0" [] d = 1 -> "1" [] d = 2 -> "2" [] d = 3 -> "3"
      [] d = 4 -> "4" [] d = 5 -> "5" [] d = 6 -> "6" [] d = 7 -> "7"
      [] d = 8 -> "8" [] d = 9 -> "9"

\* str(n) of a natural number
RECURSIVE DecimalText(_)
DecimalText(n) ==
    IF n < 10 THEN <<DigitAtom(n)>>
    ELSE DecimalText(n \div 10) \o <<DigitAtom(n % 10)>>

\* "- item\n" for every item
RECURSIVE BulletLines(_)
BulletLines(items) ==
    IF items = <<>> THEN <<>>
    ELSE <<"-", " ">> \o Head(items) \o <<"\n">> \o BulletLines(Tail(items))

\* the reply format the reviewer's prompt asks for: every header on a line of
\* its own, the field below it
ReviewTemplate(r) ==
    <<"#", " ", "FEEDBACK", "\n">> \o r.feedback \o <<"\n", "\n">>
    \o <<"#", " ", "GUTAITEKINA", "KAIZENTEIAN", "\n">>
    \o JoinLines(r.suggestions) \o <<"\n", "\n">>
    \o <<"#", " ", "SHONIN", "STATUS", "\n">> \o r.approval \o <<"\n", "\n">>
    \o <<"#", " ", "SCORE", "\n">> \o DecimalText(r.score)

\* the reply format the manager's prompt asks for
ManagerTemplate(m) ==
    <<"#", " ", "SOHYO", "\n">> \o m.comment \o <<"\n", "\n">>
    \o <<"#", " ", "TOKUNIHYOKASURUTEN", "\n">> \o BulletLines(m.evaluation) \o <<"\n">>
    \o <<"#", " ", "KAIZENTEIAN", "NAKAGURO", "ADVICE", "\n", "\n">>
    \o <<"#", " ", "RAISHUHENOKITAI", "\n">> \o m.expectations \o <<"\n", "\n">>
    \o <<"#", " ", "SHONIN", "STATUS", "\n">> \o m.approval

\* WeeklyReportSystem._format_final_output (src/main.py); SHUHO = "weekly
\* report", NAIYO = "contents", REVIEW KEKKA = "review result", JOSHI COMMENT
\* = "manager's comment", DATE = today's date
FormatFinalOutput(res) ==
    <<"#", " ", "SHUHO", " ", "-", " ", "DATE", "\n", "\n">>
    \o <<"#", " ", "SHUHO", "NAIYO", "\n">> \o res.final_report \o <<"\n", "\n">>
    \o <<"---", "\n", "\n">>
    \o <<"#", " ", "REVIEW", "KEKKA", "\n">>
    \o <<"**", "SCORE", "**", ":", " ">>
    \o DecimalText(res.review_feedback.metadata.review_score) \o <<"/", "1", "0", "\n", "\n">>
    \o <<"#", " ", "FEEDBACK", "\n">> \o res.review_feedback.review \o <<"\n", "\n">>
    \o <<"#", " ", "KAIZENTEIAN", "\n">>
    \o BulletLines(res.review_feedback.suggestions)
    \o <<"\n", "---", "\n", "\n">>
    \o <<"#", " ", "JOSHI", "COMMENT", "\n">>
    \o <<"#", " ", "SOHYO", "\n">> \o res.manager_comment.comment \o <<"\n", "\n">>
    \o <<"#", " ", "TOKUNIHYOKASURUTEN", "\n">>
    \o BulletLines(res.manager_comment.evaluation)
    \o <<"\n">>
    \o <<"#", " ", "RAISHUHENOKITAI", "\n">>
    \o res.manager_comment.next_week_expectations \o <<"\n", "\n">>
    \o <<"**", "SHONIN", "STATUS", "**", ":", " ">>
    \o res.manager_comment.metadata.approval_status \o <<"\n">>

\* the success dict ReviewerAgent.process builds from a parsed review
ReviewSuccess(r) ==
    [status |-> "success", review |-> r.feedback, suggestions |-> r.suggestions,
     approval |-> r.approval,
     metadata |-> [agent |-> "Reviewer", review_score |-> r.score]]

\* the success dict ManagerAgent.process builds from a parsed comment
ManagerSuccess(m) ==
    [status |-> "success", comment |-> m.comment, evaluation |-> m.evaluation,
     next_week_expectations |-> m.expectations,
     metadata |-> [agent |-> "Manager", approval_status |-> m.approval]]

\* the result process_weekly_report returns on success
SuccessResult(final_report, review, comment) ==
    [status |-> "success", final_report |-> final_report,
     review_feedback |-> review, manager_comment |-> comment]

\* results the review parser returns for longer replies, field by field
ReviewResults ==
    [feedback    : {<<>>, <<"x">>, <<"x", "\n", "SHONIN", "x">>},
     suggestions : {<<>>, << <<"1", ".", " ", "x">> >>,
                    << <<"1", ".", " ", "x">>, <<"2", ".", " ", "SHONIN">> >>},
     approval    : {<<"YOSHUSEI">>, <<"SHONIN">>, <<"JOKENTSUKI", "SHONIN">>},
     score       : {0, 8, 810},
     exc         : {"none"}]

\* results the manager parser returns for longer replies, field by field
ManagerResults ==
    [comment      : {<<>>, <<"x">>, <<"x", "\n", "SHONIN", "x">>},
     evaluation   : {<<>>, << <<"x">> >>, << <<>>, <<"-", "x">> >>},
     expectations : {<<>>, <<"x">>},
     approval     : {<<"SHONIN">>, <<"YOKAKUNIN">>, <<"SHONIN", "x">>},
     exc          : {"none"}]

-----------------------------------------------------------------------------
(* Idle values of the parts a specification does not exercise *)

IdlePipe ==
    /\ pc = "idle" /\ meeting_notes = <<>> /\ use_notion = FALSE
    /\ notion_client = "None" /\ draft_result = NoResult /\ review_result = NoResult
    /\ improved_draft = <<>> /\ manager_input = NoResult /\ manager_result = NoResult
    /\ result = NoResult /\ callLog = <<>> /\ notionCalls = 0

IdleParser == reply = <<>> /\ parsed = NoResult /\ ppc = "idle"

IdleAgent ==
    /\ agent = "None" /\ input_data = NoResult /\ workspace = NoResult
    /\ agent_out = NoResult /\ apc = "idle"

IdleDoc == text = <<>> /\ dlines = <<>> /\ di = 0 /\ dres = NoResult /\ dpc = "idle"

-----------------------------------------------------------------------------
(* The parsers applied to every reply *)

ParserInit ==
    /\ reply \in Replies /\ parsed = NoResult /\ ppc = "ready"
    /\ IdlePipe /\ IdleAgent /\ IdleDoc

ParseReview ==
    /\ ppc = "ready"
    /\ parsed' = ParseReviewResponse(reply)
    /\ ppc' = "review"
    /\ UNCHANGED <<reply, pipeVars, agentVars, docVars>>

ParseManager ==
    /\ ppc = "ready"
    /\ parsed' = ParseManagerResponse(reply)
    /\ ppc' = "manager"
    /\ UNCHANGED <<reply, pipeVars, agentVars, docVars>>

ParserNext == ParseReview \/ ParseManager

ParserSpec == ParserInit /\ [][ParserNext]_vars

-----------------------------------------------------------------------------
(* A parsed result written back as text and parsed again *)

\* the results in hand: those the parser returns for the model replies, and
\* the longer ones
RoundTripInit ==
    /\ \/ /\ ppc = "review_result"
          /\ parsed \in ReviewResults \cup {ParseReviewResponse(r) : r \in ReviewReplies}
       \/ /\ ppc = "manager_result"
          /\ parsed \in ManagerResults \cup {ParseManagerResponse(r) : r \in ManagerReplies}
    /\ reply = <<>>
    /\ IdlePipe /\ IdleAgent /\ IdleDoc

\* a review result written in the prompt's reply format and parsed again
ReviewAgain ==
    /\ ppc = "review_result"
    /\ reply' = ReviewTemplate(parsed)
    /\ parsed' = ParseReviewResponse(reply')
    /\ ppc' = "review_again"
    /\ UNCHANGED <<pipeVars, agentVars, docVars>>

\* a manager result written in the prompt's reply format and parsed again
ManagerAgain ==
    /\ ppc = "manager_result"
    /\ reply' = ManagerTemplate(parsed)
    /\ parsed' = ParseManagerResponse(reply')
    /\ ppc' = "manager_again"
    /\ UNCHANGED <<pipeVars, agentVars, docVars>>

\* a review result written by _format_final_output and parsed again
ReviewFromOutput ==
    /\ ppc = "review_result"
    /\ reply' = FormatFinalOutput(
                    SuccessResult(<<"x">>, ReviewSuccess(parsed),
                                  ManagerSuccess(ManagerStart)))
    /\ parsed' = ParseReviewResponse(reply')
    /\ ppc' = "review_output"
    /\ UNCHANGED <<pipeVars, agentVars, docVars>>

\* a manager result written by _format_final_output and parsed again
ManagerFromOutput ==
    /\ ppc = "manager_result"
    /\ reply' = FormatFinalOutput(
                    SuccessResult(<<"x">>, ReviewSuccess(ReviewStart),
                                  ManagerSuccess(parsed)))
    /\ parsed' = ParseManagerResponse(reply')
    /\ ppc' = "manager_output"
    /\ UNCHANGED <<pipeVars, agentVars, docVars>>

RoundTripNext ==
    \/ ReviewAgain \/ ManagerAgain
    \/ ReviewFromOutput \/ ManagerFromOutput

RoundTripSpec == RoundTripInit /\ [][RoundTripNext]_vars

-----------------------------------------------------------------------------
(* WeeklyReportSystem.process_weekly_report (src/main.py) *)

\* notes handed to a run: one the patterns match, one only the fallback reads
PipelineNotes ==
    { JoinLines(<< <<"CHECK", " ", "x">>, <<"BOX", " ", "y">> >>),
      JoinLines(<< <<"#", " ", "SEIKA">>, <<"-", " ", "x">> >>) }

NotionOutcomes ==
    { QueryRaise,
      QueryPages(<<>>),
      QueryPages(<< [title |-> "T", status |-> "S", priority |-> "None"],
                    [title |-> "", status |-> "None", priority |-> "P"] >>) }

DraftOutcomes == {Raise, Answer(<<>>), Answer(<<"x">>)}

ReviewOutcomes ==
    { Raise,
      Answer(<<>>),
      Answer(JoinLines(<< <<"#", "FEEDBACK">>, <<" ", "x", " ">>,
                          <<"SCORE">>, <<"8", "/", "1", "0">> >>)),
      Answer(JoinLines(<< <<"#", "FEEDBACK">>, <<" ", "x", " ">>,
                          <<"GUTAITEKINA", "KAIZENTEIAN">>, <<"1", ".", " ", "x">>,
                          <<"SHONIN", "STATUS">>, <<"JOKENTSUKI", "SHONIN">>,
                          <<"SCORE">>, <<"8">> >>)) }

RevisionOutcomes == {Raise, Answer(<<>>), Answer(<<"y">>)}

ManagerOutcomes ==
    { Raise,
      Answer(<<>>),
      Answer(JoinLines(<< <<"SOHYO">>, <<" ", "x", " ">>,
                          <<"TOKUNIHYOKASURUTEN">>, <<"-", " ", "x">>,
                          <<"RAISHUHENOKITAI">>, <<" ", "x", " ">>,
                          <<"SHONIN", "STATUS">>, <<"YOKAKUNIN">> >>)) }

\* _create_improvement_prompt: what the prompt is rendered from
ImprovementPrompt(draft, suggestions) ==
    [kind |-> "improve", draft |-> draft, suggestions |-> suggestions]

\* the orchestrator's early return
Failure(label, details) == [error |-> label, details |-> details]

ProcessInit ==
    /\ pc = "drafting"
    /\ meeting_notes \in SeqsUpTo(PipelineNotes, MaxNotes)
    /\ use_notion \in BOOLEAN
    /\ notion_client \in {"None", "Configured"}
    /\ draft_result = NoResult /\ review_result = NoResult /\ improved_draft = <<>>
    /\ manager_input = NoResult /\ manager_result = NoResult /\ result = NoResult
    /\ callLog = <<>> /\ notionCalls = 0
    /\ IdleParser /\ IdleAgent /\ IdleDoc

\* [1/4] report_writer.process and the test of its status
DraftStage ==
    /\ pc = "drafting"
    /\ \E q \in NotionOutcomes, o \in DraftOutcomes :
         LET w == WriterProcess([meeting_notes |-> meeting_notes,
                                 notion_updates |-> [enabled |-> use_notion]],
                                notion_client, q, o)
         IN  /\ callLog' = callLog \o w.calls
             /\ notionCalls' = notionCalls + w.queries
             /\ IF w.exc # "none"
                THEN pc' = "raised" /\ UNCHANGED <<draft_result, result>>
                ELSE /\ draft_result' = w.ret
                     /\ IF w.ret.status # "success"
                        THEN /\ result' = Failure("Failed to create draft", w.ret)
                             /\ pc' = "done"
                        ELSE pc' = "reviewing" /\ UNCHANGED result
    /\ UNCHANGED <<meeting_notes, use_notion, notion_client, review_result,
                   improved_draft, manager_input, manager_result,
                   parserVars, agentVars, docVars>>

\* [2/4] reviewer.process and the test of its status
ReviewStage ==
    /\ pc = "reviewing"
    /\ \E o \in ReviewOutcomes :
         LET r == ReviewerProcess([draft |-> draft_result.draft], o)
         IN  /\ callLog' = callLog \o r.calls
             /\ IF r.exc # "none"
                THEN pc' = "raised" /\ UNCHANGED <<review_result, result>>
                ELSE /\ review_result' = r.ret
                     /\ IF r.ret.status # "success"
                        THEN /\ result' = Failure("Failed to review draft", r.ret)
                             /\ pc' = "done"
                        ELSE pc' = "revising" /\ UNCHANGED result
    /\ UNCHANGED <<meeting_notes, use_notion, notion_client, draft_result,
                   improved_draft, manager_input, manager_result, notionCalls,
                   parserVars, agentVars, docVars>>

\* [3/4] as it would be if the reply were asked for whatever the suggestions
ReviseStage_AlwaysRevise ==
    /\ pc = "revising"
    /\ \E o \in RevisionOutcomes :
         LET g == GenerateResponse(o)
         IN  /\ callLog' = Append(callLog,
                    Call("Revision",
                         ImprovementPrompt(draft_result.draft,
                                           review_result.suggestions), o))
             /\ IF g.exc # "none"
                THEN pc' = "raised" /\ UNCHANGED improved_draft
                ELSE pc' = "commenting" /\ improved_draft' = g.text
    /\ UNCHANGED <<meeting_notes, use_notion, notion_client, draft_result,
                   review_result, manager_input, manager_result, result, notionCalls,
                   parserVars, agentVars, docVars>>

\* [3/4] the improved draft: one more reply when there are suggestions
ReviseStage ==
    /\ pc = "revising"
    /\ IF review_result.suggestions # <<>>
       THEN \E o \in RevisionOutcomes :
              LET g == GenerateResponse(o)
              IN  /\ callLog' = Append(callLog,
                         Call("Revision",
                              ImprovementPrompt(draft_result.draft,
                                                review_result.suggestions), o))
                  /\ IF g.exc # "none"
                     THEN pc' = "raised" /\ UNCHANGED improved_draft
                     ELSE pc' = "commenting" /\ improved_draft' = g.text
       ELSE /\ improved_draft' = draft_result.draft
            /\ pc' = "commenting"
            /\ UNCHANGED callLog
    /\ UNCHANGED <<meeting_notes, use_notion, notion_client, draft_result,
                   review_result, manager_input, manager_result, result, notionCalls,
                   parserVars, agentVars, docVars>>

\* [4/4] as it would be without the test of the Manager's status
CommentStage_NoCheck ==
    /\ pc = "commenting"
    /\ \E o \in ManagerOutcomes :
         LET input == [final_report |-> improved_draft,
                       review_feedback |->
                           [score |-> review_result.metadata.review_score]]
             m     == ManagerProcess(input, o)
         IN  /\ manager_input' = input
             /\ callLog' = callLog \o m.calls
             /\ IF m.exc # "none"
                THEN pc' = "raised" /\ UNCHANGED <<manager_result, result>>
                ELSE /\ manager_result' = m.ret
                     /\ pc' = "done"
                     /\ result' = [status |-> "success",
                                   final_report |-> improved_draft,
                                   review_feedback |-> review_result,
                                   manager_comment |-> m.ret]
    /\ UNCHANGED <<meeting_notes, use_notion, notion_client, draft_result,
                   review_result, improved_draft, notionCalls,
                   parserVars, agentVars, docVars>>

\* [4/4] manager.process, the test of its status and the returned result
CommentStage ==
    /\ pc = "commenting"
    /\ \E o \in ManagerOutcomes :
         LET input == [final_report |-> improved_draft,
                       review_feedback |->
                           [score |-> review_result.metadata.review_score]]
             m     == ManagerProcess(input, o)
         IN  /\ manager_input' = input
             /\ callLog' = callLog \o m.calls
             /\ IF m.exc # "none"
                THEN pc' = "raised" /\ UNCHANGED <<manager_result, result>>
                ELSE /\ manager_result' = m.ret
                     /\ pc' = "done"
                     /\ IF m.ret.status # "success"
                        THEN result' = Failure("Failed to get manager comment", m.ret)
                        ELSE result' = [status |-> "success",
                                        final_report |-> improved_draft,
                                        review_feedback |-> review_result,
                                        manager_comment |-> m.ret]
    /\ UNCHANGED <<meeting_notes, use_notion, notion_client, draft_result,
                   review_result, improved_draft, notionCalls,
                   parserVars, agentVars, docVars>>

Next == DraftStage \/ ReviewStage \/ ReviseStage \/ CommentStage

Spec == ProcessInit /\ [][Next]_vars

-----------------------------------------------------------------------------
(* A stage agent's process called on its own *)

Drafts == {<<>>, <<"x">>, <<" ">>}

ReviewerInputs ==
    {[draft |-> d] : d \in Drafts} \cup {[final_report |-> <<"x">>]}

ManagerInputs ==
    {[final_report |-> d, review_feedback |-> [score |-> sc]] :
         d \in Drafts, sc \in {0, 8}}
    \cup {[final_report |-> d] : d \in Drafts}
    \cup {[review_feedback |-> [score |-> 8]]}

\* inputs of ReportWriterAgent.process: notes, and the switch of the workspace
WriterInputs ==
    {[meeting_notes |-> ns, notion_updates |-> [enabled |-> e]] :
         ns \in SeqsUpTo(PipelineNotes, MaxNotes), e \in BOOLEAN}
    \cup {[meeting_notes |-> ns] : ns \in SeqsUpTo(PipelineNotes, MaxNotes)}
    \cup {[notion_updates |-> [enabled |-> TRUE]]}

\* the client set with set_notion_client: none, a NotionClient without a
\* database id, a NotionClient with one, a client whose call raises
WriterClients == {"None", "NoDatabase", "Configured", "Raising"}

AgentInit ==
    /\ \/ agent = "Reviewer" /\ input_data \in ReviewerInputs /\ workspace = NoResult
       \/ agent = "Manager" /\ input_data \in ManagerInputs /\ workspace = NoResult
       \/ /\ agent = "Writer" /\ input_data \in WriterInputs
          /\ workspace \in [client : WriterClients, query : NotionOutcomes]
    /\ agent_out = NoResult /\ apc = "ready"
    /\ IdlePipe /\ IdleParser /\ IdleDoc

CallReviewer ==
    /\ apc = "ready" /\ agent = "Reviewer"
    /\ \E o \in {Raise} \cup {Answer(t) : t \in ReviewReplies} :
         /\ agent_out' = ReviewerProcess(input_data, o)
         /\ apc' = IF agent_out'.exc = "none" THEN "returned" ELSE "raised"
    /\ UNCHANGED <<agent, input_data, workspace, pipeVars, parserVars, docVars>>

CallManager ==
    /\ apc = "ready" /\ agent = "Manager"
    /\ \E o \in {Raise} \cup {Answer(t) : t \in ManagerReplies} :
         /\ agent_out' = ManagerProcess(input_data, o)
         /\ apc' = IF agent_out'.exc = "none" THEN "returned" ELSE "raised"
    /\ UNCHANGED <<agent, input_data, workspace, pipeVars, parserVars, docVars>>

CallWriter ==
    /\ apc = "ready" /\ agent = "Writer"
    /\ \E o \in DraftOutcomes :
         /\ agent_out' = WriterProcess(input_data, workspace.client, workspace.query, o)
         /\ apc' = IF agent_out'.exc = "none" THEN "returned" ELSE "raised"
    /\ UNCHANGED <<agent, input_data, workspace, pipeVars, parserVars, docVars>>

AgentNext == CallReviewer \/ CallManager \/ CallWriter

AgentSpec == AgentInit /\ [][AgentNext]_vars

-----------------------------------------------------------------------------
(* DocumentParser.parse, one line of the note per step *)

DocInit ==
    /\ text \in DocTexts /\ dlines = <<>> /\ di = 0 /\ dres = NoResult /\ dpc = "ready"
    /\ IdlePipe /\ IdleParser /\ IdleAgent

\* result = {...}; lines = text.split("\n")
DocBegin ==
    /\ dpc = "ready"
    /\ dres' = DocStart(text)
    /\ dlines' = Split(text)
    /\ di' = 1
    /\ dpc' = "scan"
    /\ UNCHANGED <<text, pipeVars, parserVars, agentVars>>

\* one pass of "for line in lines"
DocLine ==
    /\ dpc = "scan" /\ di <= Len(dlines)
    /\ dres' = DocStep(dres, dlines[di])
    /\ di' = di + 1
    /\ UNCHANGED <<text, dlines, dpc, pipeVars, parserVars, agentVars>>

\* the fallback test and the return
DocFinish ==
    /\ dpc = "scan" /\ di > Len(dlines)
    /\ dres' = DocReturn(dres, dlines)
    /\ dpc' = "done"
    /\ UNCHANGED <<text, dlines, di, pipeVars, parserVars, agentVars>>

DocNext == DocBegin \/ DocLine \/ DocFinish

DocSpec == DocInit /\ [][DocNext]_vars

-----------------------------------------------------------------------------
(* The loop body of a parser applied to one line *)

\* the phrases the if/elif chain of each parser tests, in its order, each with
\* the section it switches to
ReviewChain ==
    << [phrase |-> H_FEEDBACK,    section |-> "feedback"],
       [phrase |-> H_SUGGESTIONS, section |-> "suggestions"],
       [phrase |-> H_APPROVAL,    section |-> "approval"],
       [phrase |-> H_SCORE,       section |-> "score"] >>

ManagerChain ==
    << [phrase |-> H_COMMENT,      section |-> "comment"],
       [phrase |-> H_EVALUATION,   section |-> "evaluation"],
       [phrase |-> H_KAIZEN,       section |-> "advice"],
       [phrase |-> H_ADVICE,       section |-> "advice"],
       [phrase |-> H_EXPECTATIONS, section |-> "expectations"],
       [phrase |-> H_APPROVAL,     section |-> "approval"] >>

ChainPhrases(chain) == {chain[i].phrase : i \in 1..Len(chain)}

\* characters of the text an atom stands for
AtomChars(a) ==
    CASE a = "FEEDBACK" -> 7
      [] a = "GUTAITEKINA" -> 4
      [] a = "KAIZENTEIAN" -> 4
      [] a = "SHONIN" -> 2
      [] a = "STATUS" -> 5
      [] a = "SCORE" -> 3
      [] a = "SOHYO" -> 2
      [] a = "TOKUNIHYOKASURUTEN" -> 7
      [] a = "ADVICE" -> 5
      [] a = "RAISHUHENOKITAI" -> 6
      [] OTHER -> 1

\* len(phrase)
RECURSIVE PhraseChars(_)
PhraseChars(h) == IF h = <<>> THEN 0 ELSE AtomChars(Head(h)) + PhraseChars(Tail(h))

\* a line: up to MaxPhrases pieces, each a header phrase or a filler
RECURSIVE Concat(_)
Concat(pieces) == IF pieces = <<>> THEN <<>> ELSE Head(pieces) \o Concat(Tail(pieces))

LinesOver(chain) ==
    {Concat(ps) : ps \in SeqsUpTo(ChainPhrases(chain) \cup {<<"x">>, <<" ">>}, MaxPhrases)}

\* the state of a parser's loop on entering the body: any current section
LoopStates(start, chain) ==
    {[start EXCEPT !.current_section = sec] :
         sec \in {"None"} \cup {chain[i].section : i \in 1..Len(chain)}}

LineInit ==
    /\ \/ /\ ppc = "review_line" /\ reply \in LinesOver(ReviewChain)
          /\ parsed \in LoopStates(ReviewStart, ReviewChain)
       \/ /\ ppc = "manager_line" /\ reply \in LinesOver(ManagerChain)
          /\ parsed \in LoopStates(ManagerStart, ManagerChain)
    /\ IdlePipe /\ IdleAgent /\ IdleDoc

\* one pass of the review parser's loop
ReviewLine ==
    /\ ppc = "review_line"
    /\ parsed' = ReviewStep(parsed, reply)
    /\ ppc' = "review_line_done"
    /\ UNCHANGED <<reply, pipeVars, agentVars, docVars>>

\* one pass of the manager parser's loop
ManagerLine ==
    /\ ppc = "manager_line"
    /\ parsed' = ManagerStep(parsed, reply)
    /\ ppc' = "manager_line_done"
    /\ UNCHANGED <<reply, pipeVars, agentVars, docVars>>

LineNext == ReviewLine \/ ManagerLine

LineSpec == LineInit /\ [][LineNext]_vars

-----------------------------------------------------------------------------
(* Properties of process_weekly_report *)

StatusOf(r) == Get(r, "status", "none")

IsFailure(r, label, details) ==
    "error" \in DOMAIN r /\ r.error = label /\ r.details = details

\* who made the completion-service calls, in order
Callers == [i \in 1..Len(callLog) |-> callLog[i].by]

IsPrefix(a, b) == Len(a) <= Len(b) /\ SubSeq(b, 1, Len(a)) = a

RevisionCalls == Cardinality({i \in 1..Len(callLog) : callLog[i].by = "Revision"})

\* C1: the stages run in the order Writer, Reviewer, (revision), Manager, each
\* only after every earlier stage returned status "success"; once a stage has
\* returned another status the run is over with {error: that stage's label,
\* details: that stage's result}, no later stage has run and no further
\* completion-service call was made; a result with status "success" means all
\* three stages returned "success"; an empty final report handed to the
\* Manager ends the run with {error: "Failed to get manager comment"}.
C1_StagesInOrderAndShortCircuit ==
    /\ \/ IsPrefix(Callers, <<"Writer", "Reviewer", "Manager">>)
       \/ IsPrefix(Callers, <<"Writer", "Reviewer", "Revision", "Manager">>)
    /\ review_result # NoResult => StatusOf(draft_result) = "success"
    /\ (pc = "commenting" \/ manager_input # NoResult)
           => StatusOf(draft_result) = "success" /\ StatusOf(review_result) = "success"
    /\ manager_result # NoResult => manager_input # NoResult
    /\ StatusOf(draft_result) \notin {"success", "none"}
           => /\ pc = "done"
              /\ IsFailure(result, "Failed to create draft", draft_result)
              /\ review_result = NoResult /\ manager_input = NoResult
              /\ Len(callLog) <= 1
    /\ StatusOf(review_result) \notin {"success", "none"}
           => /\ pc = "done"
              /\ IsFailure(result, "Failed to review draft", review_result)
              /\ manager_input = NoResult /\ manager_result = NoResult
              /\ Len(callLog) <= 2 /\ RevisionCalls = 0
    /\ StatusOf(manager_result) \notin {"success", "none"}
           => /\ pc = "done"
              /\ IsFailure(result, "Failed to get manager comment", manager_result)
    /\ StatusOf(result) = "success"
           => /\ pc = "done"
              /\ StatusOf(draft_result) = "success"
              /\ StatusOf(review_result) = "success"
              /\ StatusOf(manager_result) = "success"
    /\ (manager_input # NoResult /\ manager_input.final_report = <<>>)
           => /\ pc = "done"
              /\ IsFailure(result, "Failed to get manager comment", manager_result)
              /\ manager_result.status = "error"
              /\ \A i \in 1..Len(callLog) : callLog[i].by # "Manager"
    /\ pc = "done" => result # NoResult

\* C1, its case: an empty final report reached the Manager and the run ended
\* with the Manager's label
C1_Witness ==
    /\ pc = "done"
    /\ manager_input # NoResult /\ manager_input.final_report = <<>>
    /\ IsFailure(result, "Failed to get manager comment", manager_result)

\* C2: a completion-service call that raised ends the run with a result
\* {error, details}; no exception leaves process_weekly_report.
C2_ServiceFailureIsReported ==
    (\E i \in 1..Len(callLog) : callLog[i].raised)
        => pc = "done" /\ "error" \in DOMAIN result

\* C4: when the Reviewer's suggestion list is empty the report handed to the
\* Manager, and returned as final_report, is the Writer's draft and no
\* completion-service call lies between the Reviewer's and the Manager's; when
\* it is not empty exactly one more call is made and its reply, as it came, is
\* the final report.
C4_RevisionSkip ==
    /\ RevisionCalls <= 1
    /\ RevisionCalls = 1 => review_result.suggestions # <<>>
    /\ (pc = "commenting" \/ manager_input # NoResult)
           => /\ IF review_result.suggestions = <<>>
                 THEN /\ improved_draft = draft_result.draft
                      /\ RevisionCalls = 0
                      /\ SubSeq(Callers, 1, 2) = <<"Writer", "Reviewer">>
                      /\ \A i \in 3..Len(callLog) : callLog[i].by = "Manager"
                 ELSE /\ RevisionCalls = 1
                      /\ callLog[3].by = "Revision"
                      /\ ~callLog[3].raised
                      /\ improved_draft = callLog[3].text
              /\ manager_input # NoResult
                     => manager_input.final_report = improved_draft
              /\ StatusOf(result) = "success"
                     => result.final_report = improved_draft

\* C4, its case: a run that succeeded with no suggestions and so with no
\* revision call
C4_Witness ==
    /\ pc = "done" /\ StatusOf(result) = "success"
    /\ review_result.suggestions = <<>>
    /\ result.final_report = draft_result.draft
    /\ Callers = <<"Writer", "Reviewer", "Manager">>

\* the number of completion-service calls of a successful run with the
\* review in hand: 4 with suggestions, 3 without
CallsOfSuccess ==
    IF StatusOf(review_result) = "success" /\ review_result.suggestions # <<>>
    THEN 4 ELSE 3

\* the calls a step added to the record
NewCalls == SubSeq(callLog', Len(callLog) + 1, Len(callLog'))

\* C13: a stage's process that passes validation makes exactly one
\* completion-service call and none is made again; a run that ends with status
\* "success" has made 3 calls when the Reviewer's suggestion list is empty and
\* 4 otherwise; a run that ends with an error result has made fewer than that.
C13_OneCallPerStage ==
    [][/\ IsPrefix(callLog, callLog') /\ Len(NewCalls) <= 1
       /\ pc = "drafting" => Len(NewCalls) = 1 /\ NewCalls[1].by = "Writer"
       /\ pc = "reviewing" =>
            IF draft_result.draft # <<>>
            THEN Len(NewCalls) = 1 /\ NewCalls[1].by = "Reviewer"
            ELSE NewCalls = <<>>
       /\ pc = "commenting" =>
            IF improved_draft # <<>>
            THEN Len(NewCalls) = 1 /\ NewCalls[1].by = "Manager"
            ELSE NewCalls = <<>>
       /\ StatusOf(result') = "success" =>
            Len(callLog') = IF review_result.suggestions = <<>> THEN 3 ELSE 4
       /\ "error" \in DOMAIN result' =>
            Len(callLog') < CallsOfSuccess'
      ]_vars

\* C13, its case: a successful run with a revision has ended
C13_Witness ==
    /\ pc = "done" /\ StatusOf(result) = "success"
    /\ review_result.suggestions # <<>>
    /\ Callers = <<"Writer", "Reviewer", "Revision", "Manager">>

\* C15: whatever the Writer's process returns has status "success", so no run
\* ends with {error: "Failed to create draft"}; a run whose draft is empty ends
\* at the next stage with {error: "Failed to review draft"}, the Reviewer
\* having made no completion-service call.
C15_DraftFailureUnreachable ==
    /\ draft_result # NoResult => draft_result.status = "success"
    /\ ~ ("error" \in DOMAIN result /\ result.error = "Failed to create draft")
    /\ (draft_result # NoResult /\ draft_result.draft = <<>> /\ pc # "reviewing")
           => /\ pc = "done"
              /\ IsFailure(result, "Failed to review draft", review_result)
              /\ review_result.status = "error"
              /\ Callers = <<"Writer">>

\* C15, its case: with no notes, a failing workspace query and an empty reply
\* the Writer returned and the run has ended at the review
C15_Witness ==
    /\ pc = "done" /\ meeting_notes = <<>> /\ use_notion /\ notionCalls = 1
    /\ callLog[1].prompt.notion_items = <<>>
    /\ draft_result.status = "success" /\ draft_result.draft = <<>>
    /\ IsFailure(result, "Failed to review draft", review_result)

-----------------------------------------------------------------------------
(* Properties of the stage agents *)

RequiredInput == IF agent = "Reviewer" THEN "draft" ELSE "final_report"

-----------------------------------------------------------------------------
(* Properties of the response parsers *)

ReviewApprovals  == {<<"SHONIN">>, <<"JOKENTSUKI", "SHONIN">>, <<"YOSHUSEI">>}
ManagerApprovals == {<<"SHONIN">>, <<"YOKAKUNIN">>}

\* C5: the score the review parser returns is an integer from 0 to 10.
C5_ScoreInRange == ppc = "review" => parsed.score \in 0..10

\* C6: the reply "SCORE: 8/10" gives score 8, and a score line without a digit
\* ("HYOKA: NASHI") gives score 0.
C6_ScoreExtraction ==
    ppc = "review"
        => /\ reply = <<"SCORE", ":", " ", "8", "/", "1", "0">> => parsed.score = 8
           /\ reply = JoinLines(<<H_SCORE, <<"HYOKA", ":", " ", "NASHI">> >>)
                  => parsed.score = 0

\* C7: the approval a parser returns is one of its stage's fixed statuses.
C7_ApprovalInStatusSet ==
    /\ ppc = "review" => parsed.approval \in ReviewApprovals
    /\ ppc = "manager" => parsed.approval \in ManagerApprovals

ReviewHeaders  == {H_FEEDBACK, H_SUGGESTIONS, H_APPROVAL, H_SCORE}
ManagerHeaders == {H_COMMENT, H_EVALUATION, H_KAIZEN, H_ADVICE, H_EXPECTATIONS, H_APPROVAL}

HasHeader(s, headers) == \E h \in headers : Contains(s, h)

\* every line of the reply is blank or a header line
OnlyHeaders(r, headers) ==
    \A i \in 1..Len(Split(r)) :
        Strip(Split(r)[i]) = <<>> \/ HasHeader(Split(r)[i], headers)

ReviewDefault ==
    [feedback |-> <<>>, suggestions |-> <<>>, approval |-> <<"YOSHUSEI">>,
     score |-> 0, exc |-> "none"]

ManagerDefault ==
    [comment |-> <<>>, evaluation |-> <<>>, expectations |-> <<>>,
     approval |-> <<"SHONIN">>, exc |-> "none"]

\* C10: the parsers return a result for every reply and raise nothing; a reply
\* with none of the header phrases gives the all-default result; a header
\* that no content follows leaves its field empty.
C10_ParsingNeverRaises ==
    /\ ppc = "review"
           => /\ parsed.exc = "none"
              /\ DOMAIN parsed = DOMAIN ReviewDefault
              /\ ~HasHeader(reply, ReviewHeaders) => parsed = ReviewDefault
              /\ OnlyHeaders(reply, ReviewHeaders)
                     => parsed.feedback = <<>> /\ parsed.suggestions = <<>>
    /\ ppc = "manager"
           => /\ parsed.exc = "none"
              /\ DOMAIN parsed = DOMAIN ManagerDefault
              /\ ~HasHeader(reply, ManagerHeaders) => parsed = ManagerDefault
              /\ OnlyHeaders(reply, ManagerHeaders)
                     => /\ parsed.comment = <<>> /\ parsed.evaluation = <<>>
                        /\ parsed.expectations = <<>>

\* C10, its case: the score section holds a line int() cannot read, and the
\* parser still returned a result
C10_Witness ==
    /\ ppc = "review"
    /\ reply = JoinLines(<<H_SCORE, <<"HYOKA", ":", " ", "NASHI">>, <<"SUP2">> >>)
    /\ parsed.exc = "none" /\ parsed.score = 0

\* C11 as claimed: a result written by the repository's own section-headed
\* writer, _format_final_output, and parsed again gives the same fields.
C11_RoundTripFinalOutput ==
    [][(ppc' \in {"review_output", "manager_output"}) => parsed' = parsed]_vars

\* C11: a result of a parser, written in the reply format its prompt asks for
\* (every header on a line of its own, the field's lines below it, the score
\* as a bare number) and parsed again, gives every field back unchanged.
C11_RoundTripPromptFormat ==
    [][(ppc' \in {"review_again", "manager_again"}) => parsed' = parsed]_vars

\* C11, its case: a review with feedback, two suggestions, an approval and a
\* score has been written and parsed again
C11_Witness ==
    /\ ppc = "review_again"
    /\ parsed = [feedback    |-> <<"x", "\n", "SHONIN", "x">>,
                 suggestions |-> << <<"1", ".", " ", "x">>,
                                    <<"2", ".", " ", "SHONIN">> >>,
                 approval    |-> <<"JOKENTSUKI", "SHONIN">>,
                 score       |-> 8, exc |-> "none"]

-----------------------------------------------------------------------------
(* Properties of a parser's loop body on one line *)

\* the chain of the parser the line was handed to
ChainAt(p) == IF p \in {"review_line", "review_line_done"} THEN ReviewChain ELSE ManagerChain

\* the places of the chain whose phrase the line contains
Hits(chain, line) == {i \in 1..Len(chain) : Contains(Strip(line), chain[i].phrase)}

Least(S) == CHOOSE i \in S : \A j \in S : i <= j

\* C14 as claimed: a line that contains header phrases switches the current
\* section to that of the longest header phrase it contains.
C14_LongestHeaderWins ==
    (ppc \in {"review_line_done", "manager_line_done"} /\ Hits(ChainAt(ppc), reply) # {})
        => \E i \in Hits(ChainAt(ppc), reply) :
              /\ \A j \in Hits(ChainAt(ppc), reply) :
                     PhraseChars(ChainAt(ppc)[j].phrase) <= PhraseChars(ChainAt(ppc)[i].phrase)
              /\ parsed.current_section = ChainAt(ppc)[i].section

\* C14: a line that contains header phrases switches the current section to
\* that of the first phrase, in the order of the parser's if/elif chain, that it
\* contains, and is not read as content.
C14_FirstInChainWins ==
    [][(ppc' \in {"review_line_done", "manager_line_done"} /\ Hits(ChainAt(ppc), reply) # {})
          => parsed' = [parsed EXCEPT !.current_section =
                            ChainAt(ppc)[Least(Hits(ChainAt(ppc), reply))].section]]_vars

\* C14, its case: a line with two header phrases, the longer one first in the
\* line, has been classified by the one the chain tests first
C14_Witness ==
    /\ ppc = "manager_line_done"
    /\ reply = H_EXPECTATIONS \o <<" ">> \o H_COMMENT
    /\ parsed.current_section = "comment"

-----------------------------------------------------------------------------
(* Properties of ReportWriterAgent.process called on its own *)

\* the workspace was asked and gave nothing: its client raised, or returned
\* {items: [], error: ...}, or returned no items
WorkspaceGaveNothing ==
    /\ agent = "Writer"
    /\ workspace.client # "None"
    /\ Get(Get(input_data, "notion_updates", EmptyDict), "enabled", FALSE)
    /\ \/ workspace.client \in {"Raising", "NoDatabase"}
       \/ workspace.query.raised
       \/ ParseNotionResults(workspace.query.results) = <<>>

\* C12: when the workspace client raises, returns {items: [], error: ...} or
\* returns no items, the Writer asks the workspace at most once, still makes
\* its one completion call, with no external items in the prompt, and returns
\* status "success" with notion_items_count 0.
C12_WorkspaceFailureIsSoft ==
    (apc # "ready" /\ WorkspaceGaveNothing) =>
        /\ agent_out.queries <= 1
        /\ Len(agent_out.calls) = 1
        /\ agent_out.calls[1].by = "Writer"
        /\ agent_out.calls[1].prompt.notion_items = <<>>
        /\ apc = "returned"
        /\ agent_out.ret.status = "success"
        /\ agent_out.ret.metadata.sources.notion_items_count = 0

-----------------------------------------------------------------------------
(* Properties of DocumentParser.parse *)

Entries(res) == Len(res.achievements) + Len(res.tasks) + Len(res.issues)

\* C8: on the pattern path one line of the note adds at most one entry, over
\* the three lists together.
C8_OneCategoryPerLine ==
    [][(dpc = "scan" /\ dpc' = "scan") => Entries(dres') <= Entries(dres) + 1]_vars

\* C9: parse returns the four fields achievements, tasks, issues and raw_text,
\* raw_text being the input, on the pattern path and on the fallback path.
C9_NoteSummaryFields ==
    dpc = "done"
        => /\ DOMAIN dres = {"achievements", "tasks", "issues", "raw_text"}
           /\ dres.raw_text = text

====
